---- MODULE Spec2Model ----
(***************************************************************************)
(* Titan: event subscription and delivery.                                 *)
(*                                                                         *)
(*  - client/src/tcp_client_blocking.rs : subscribe(), the blocking TCP    *)
(*    listener thread that reads event lines from a non-blocking socket    *)
(*    and forwards decoded events on an mpsc channel.                      *)
(*  - src/server/server.rs : the axum router and the four subscription     *)
(*    handlers of the control plane.                                       *)
(***************************************************************************)
EXTENDS Integers, Sequences, FiniteSets, TLC

(***************************************************************************)
(* Bounds of the model.                                                    *)
(***************************************************************************)
\* number of lines the server writes on one delivery connection
MaxLines == 3
\* bytes the socket holds for the reader before the server's writes wait
MaxPending == 4
\* number of subscriptions the registry hands an id to
MaxSubs == 2
\* length of the text a serialized value carries
MaxText == 2
\* lines each server writes when two subscriptions run side by side
MaxPeerLines == 1

(***************************************************************************)
(* Bytes on the wire.  A line is a sequence of one-character strings.      *)
(***************************************************************************)
NL == "\n"
SP == " "
LB == "{"
RB == "}"
JUNK == "x"

\* the whitespace str::trim strips
IsWhitespace(c) == c \in {SP, NL}

\* the event values: event number i is the value ToString(i)
EventOf(i) == ToString(i)
Events == {EventOf(i) : i \in 1..MaxLines}

\* serde_json::to_string of an event, as the server writes it: one JSON
\* object on one line, no embedded line terminator
Encode(e) == <<LB, e, RB>>

\* serde_json::from_str::<Event>: the whole trimmed line must be one
\* well-formed object of a known event kind; anything else is an error
DecodeOk(s) == Len(s) = 3 /\ s[1] = LB /\ s[3] = RB /\ s[2] \in Events
Decode(s) == s[2]

\* str::trim: strip leading and trailing whitespace
RECURSIVE TrimStart(_)
TrimStart(s) ==
  IF s # <<>> /\ IsWhitespace(Head(s)) THEN TrimStart(Tail(s)) ELSE s

RECURSIVE TrimEnd(_)
TrimEnd(s) ==
  IF s # <<>> /\ IsWhitespace(s[Len(s)])
  THEN TrimEnd(SubSeq(s, 1, Len(s) - 1))
  ELSE s

Trim(s) == TrimEnd(TrimStart(s))

(***************************************************************************)
(* BufRead::read_line on the non-blocking socket.                          *)
(***************************************************************************)
HasNL(buf) == \E i \in 1..Len(buf) : buf[i] = NL
FirstNL(buf) == CHOOSE i \in 1..Len(buf) : buf[i] = NL /\ \A j \in 1..(i - 1) : buf[j] # NL

\* the bytes one read_line call appends to its String argument: up to and
\* including the first newline, or everything that has arrived when there
\* is no newline yet (they stay appended when the call then fails)
ReadTaken(buf) == IF HasNL(buf) THEN SubSeq(buf, 1, FirstNL(buf)) ELSE buf
ReadRest(buf) == IF HasNL(buf) THEN SubSeq(buf, FirstNL(buf) + 1, Len(buf)) ELSE <<>>

\* the result of the call: Ok(n) with n > 0, Ok(0), Err(WouldBlock), Err(other)
ReadResult(buf, c) ==
  IF HasNL(buf) THEN "ok"
  ELSE IF c = "open" THEN "wouldblock"
  ELSE IF c = "reset" THEN "err"
  ELSE IF buf = <<>> THEN "ok0" ELSE "ok"

(***************************************************************************)
(* State.                                                                  *)
(***************************************************************************)
VARIABLES
  \* --- server side of one delivery connection and the socket ---
  toSend,         \* bytes of the line the server is writing, not yet on the wire
  sending,        \* the kind of that line: "event", "blank", "malformed", or "none"
  midLine,        \* some bytes of that line are on the wire already
  linesWritten,   \* lines the server has started
  wroteEvents,    \* history: the events whose encoding is on the wire, in order
  wroteBlank,     \* history: bytes of a blank line are on the wire
  wroteMalformed, \* history: bytes of a line that is no event are on the wire
  malformedAfter, \* history: the events on the wire before the first such line
  wroteUnterminated, \* history: the stream ended inside a line
  wroteOpenEvent, \* history: the server closed after a whole event, before its newline
  inbuf,          \* bytes that arrived and that read_line has not consumed
  conn,           \* "open", "closed" (server closed), "reset" (transport error)
  \* --- the listener thread of subscribe ---
  pc,             \* "check", "read", "process", "sleep", "done"
  line,           \* the String `line`
  exitCause,      \* why the loop was left
  diag,           \* a "Failed to parse event" diagnostic was logged
  \* --- shared with the caller ---
  shutdown_flag,  \* the AtomicBool
  txAlive,        \* the Sender is owned by the thread closure
  rxAlive,        \* the Receiver returned to the caller
  queue,          \* the mpsc channel
  received,       \* what the consumer got from rx.recv()
  \* --- history ---
  sent,           \* every event tx.send accepted
  sentAfterCancel,   \* a send was accepted while shutdown_flag was set
  readAfterCancel,   \* a read_line call returned while shutdown_flag was set
  sleptAfterCancel,  \* a poll sleep was taken while shutdown_flag was set
  readAfterDrop,     \* a read_line call was made after the Receiver was dropped
  \* --- control plane ---
  enable_subscriptions,
  registry,
  nextUuid,
  resp,
  \* --- the call of subscribe, up to its return ---
  step,           \* the statement of subscribe the caller's thread is at
  request,        \* the subscription_request argument, owned by the call
  wire,           \* bytes the client wrote that the server has not read yet
  flushed,        \* stream.flush() returned Ok
  connects,       \* TcpStream::connect calls made
  handshake,      \* what the server made of the first line it read
  callErr,        \* the TcpClientError returned: "none", "io", "serde"
  \* --- the line codec on its own ---
  codec,          \* a value, its line, the line as read back, the decoded value
  \* --- two subscriptions side by side ---
  peers

serverVars == <<toSend, sending, midLine, linesWritten, wroteEvents, wroteBlank, wroteMalformed,
                malformedAfter, wroteUnterminated, wroteOpenEvent, inbuf, conn>>
listenerVars == <<pc, line, exitCause, diag>>
sharedVars == <<shutdown_flag, txAlive, rxAlive, queue, received>>
histVars == <<sent, sentAfterCancel, readAfterCancel, sleptAfterCancel, readAfterDrop>>
gatewayVars == <<enable_subscriptions, registry, nextUuid, resp>>
callVars == <<step, request, wire, flushed, connects, handshake, callErr>>
asideVars == <<gatewayVars, callVars, codec, peers>>
vars == <<serverVars, listenerVars, sharedVars, histVars, gatewayVars, callVars, codec, peers>>

\* no request served yet
NoResp == [op |-> "none", status |-> "none", body |-> {}, target |-> 0, hit |-> FALSE]

\* the state right after subscribe returned Ok(rx): the handshake is
\* flushed, the channel is empty, the thread is at the top of its loop
ListenerInit ==
  /\ toSend = <<>>
  /\ sending = "none"
  /\ midLine = FALSE
  /\ linesWritten = 0
  /\ wroteEvents = <<>>
  /\ wroteBlank = FALSE
  /\ wroteMalformed = FALSE
  /\ malformedAfter = 0
  /\ wroteUnterminated = FALSE
  /\ wroteOpenEvent = FALSE
  /\ inbuf = <<>>
  /\ conn = "open"
  /\ pc = "check"
  /\ line = <<>>
  /\ exitCause = "none"
  /\ diag = FALSE
  /\ shutdown_flag = FALSE
  /\ txAlive = TRUE
  /\ rxAlive = TRUE
  /\ queue = <<>>
  /\ received = <<>>
  /\ sent = <<>>
  /\ sentAfterCancel = FALSE
  /\ readAfterCancel = FALSE
  /\ sleptAfterCancel = FALSE
  /\ readAfterDrop = FALSE

\* the control plane is not part of the delivery connection's behaviours
GatewayIdle ==
  /\ enable_subscriptions = TRUE
  /\ registry = {}
  /\ nextUuid = 1
  /\ resp = NoResp

\* subscribe has returned Ok(rx): one connect, the handshake line written,
\* flushed and read by the server, the request dropped with the call
CallReturned ==
  /\ step = "returned"
  /\ request = "none"
  /\ wire = <<>>
  /\ flushed = TRUE
  /\ connects = 1
  /\ handshake = "ok"
  /\ callErr = "none"

\* nothing under way in the codec, no second subscription
NoValue == [kind |-> "none", text |-> <<>>]
NoOut == [ok |-> FALSE, value |-> NoValue]
NoCodec == [at |-> "idle", value |-> NoValue, line |-> <<>>, read |-> <<>>, out |-> NoOut]
NoPeers == <<>>
AsideIdle == codec = NoCodec /\ peers = NoPeers

Init == ListenerInit /\ GatewayIdle /\ CallReturned /\ AsideIdle

(***************************************************************************)
(* The server and the transport.                                           *)
(***************************************************************************)
\* the lines a server can write: the next event, padding, or a line that
\* is no event.  Once the listener thread has exited the socket is closed
\* and nothing the server does reaches it.
BlankLines == {<<>>, <<SP>>}
MalformedLines == {<<JUNK>>}
NextEvent == EventOf(Len(wroteEvents) + 1)

ServerBeginLine ==
  /\ pc # "done"
  /\ conn = "open"
  /\ toSend = <<>>
  /\ linesWritten < MaxLines
  /\ \/ toSend' = Encode(NextEvent) \o <<NL>> /\ sending' = "event"
     \/ \E l \in BlankLines : toSend' = l \o <<NL>> /\ sending' = "blank"
     \/ \E l \in MalformedLines : toSend' = l \o <<NL>> /\ sending' = "malformed"
  /\ linesWritten' = linesWritten + 1
  /\ UNCHANGED <<midLine, wroteEvents, wroteBlank, wroteMalformed, malformedAfter,
                 wroteUnterminated, wroteOpenEvent, inbuf, conn, listenerVars, sharedVars, histVars, asideVars>>

\* one more byte reaches the client: any fragmentation of the stream
ServerWriteByte ==
  /\ pc # "done"
  /\ conn = "open"
  /\ toSend # <<>>
  /\ Len(inbuf) < MaxPending
  /\ inbuf' = Append(inbuf, Head(toSend))
  /\ wroteEvents' = IF sending = "event" /\ toSend = <<RB, NL>>
                    THEN Append(wroteEvents, NextEvent) ELSE wroteEvents
  /\ toSend' = Tail(toSend)
  /\ sending' = IF Tail(toSend) = <<>> THEN "none" ELSE sending
  /\ midLine' = (Tail(toSend) # <<>>)
  /\ wroteBlank' = (wroteBlank \/ sending = "blank")
  /\ wroteMalformed' = (wroteMalformed \/ sending = "malformed")
  /\ malformedAfter' = IF ~wroteMalformed /\ sending = "malformed"
                       THEN Len(wroteEvents) ELSE malformedAfter
  /\ UNCHANGED <<linesWritten, wroteUnterminated, wroteOpenEvent, conn, listenerVars, sharedVars, histVars, asideVars>>

\* an event line cut short inside its encoding is a line that is no event
CutShort == sending = "event" /\ midLine /\ toSend # <<NL>>

\* the server closes the connection (possibly before the final newline)
ServerClose ==
  /\ pc # "done"
  /\ conn = "open"
  /\ conn' = "closed"
  /\ toSend' = <<>>
  /\ sending' = "none"
  /\ midLine' = FALSE
  /\ wroteMalformed' = (wroteMalformed \/ CutShort)
  /\ malformedAfter' = IF ~wroteMalformed /\ CutShort THEN Len(wroteEvents) ELSE malformedAfter
  /\ wroteUnterminated' = midLine
  /\ wroteOpenEvent' = (sending = "event" /\ toSend = <<NL>>)
  /\ UNCHANGED <<linesWritten, wroteEvents, wroteBlank, inbuf, listenerVars, sharedVars, histVars, asideVars>>

\* the transport fails: reads report an error other than WouldBlock
TransportError ==
  /\ pc # "done"
  /\ conn = "open"
  /\ conn' = "reset"
  /\ toSend' = <<>>
  /\ sending' = "none"
  /\ midLine' = FALSE
  /\ wroteMalformed' = (wroteMalformed \/ CutShort)
  /\ malformedAfter' = IF ~wroteMalformed /\ CutShort THEN Len(wroteEvents) ELSE malformedAfter
  /\ wroteUnterminated' = midLine
  /\ UNCHANGED <<linesWritten, wroteOpenEvent, wroteEvents, wroteBlank, inbuf, listenerVars, sharedVars, histVars, asideVars>>

(***************************************************************************)
(* The listener thread: the loop of subscribe.                             *)
(***************************************************************************)
\* a loop that never looks at the flag
ShutdownRequested_Ignored(flag) == FALSE

\* shutdown_flag.load(SeqCst)
ShutdownRequested(flag) == flag

\* leaving the loop ends the closure, which drops what it owns: tx (the
\* channel is closed), the String, and the reader with its buffered bytes
\* and its socket
Exit(cause) ==
  /\ pc' = "done"
  /\ exitCause' = cause
  /\ txAlive' = FALSE
  /\ line' = <<>>
  /\ inbuf' = <<>>

\* the top of the loop: break on the flag, else line.clear()
CheckShutdown ==
  /\ pc = "check"
  /\ IF ShutdownRequested(shutdown_flag)
     THEN Exit("shutdown")
     ELSE /\ pc' = "read"
          /\ line' = <<>>
          /\ UNCHANGED <<exitCause, txAlive, inbuf>>
  /\ UNCHANGED <<toSend, sending, midLine, linesWritten, wroteEvents, wroteBlank, wroteMalformed,
                 malformedAfter, wroteUnterminated, wroteOpenEvent, conn, diag, shutdown_flag, rxAlive, queue, received, histVars, asideVars>>

\* a match that takes WouldBlock for a fatal read error
AfterRead_WouldBlockFatal(r, taken, rest) ==
  CASE r = "ok" -> /\ pc' = "process"
                   /\ line' = taken
                   /\ inbuf' = rest
                   /\ UNCHANGED <<exitCause, txAlive>>
    [] r \in {"ok0", "wouldblock", "err"} ->
                   /\ pc' = "done"
                   /\ exitCause' = IF r = "ok0" THEN "closed" ELSE "error"
                   /\ txAlive' = FALSE
                   /\ line' = <<>>
                   /\ inbuf' = <<>>

\* a match that retries at once on WouldBlock, without the sleep
AfterRead_BusyRetry(r, taken, rest) ==
  CASE r = "ok" -> /\ pc' = "process"
                   /\ line' = taken
                   /\ inbuf' = rest
                   /\ UNCHANGED <<exitCause, txAlive>>
    [] r = "wouldblock" -> /\ pc' = "check"
                           /\ line' = taken
                           /\ inbuf' = rest
                           /\ UNCHANGED <<exitCause, txAlive>>
    [] r \in {"ok0", "err"} ->
                   /\ pc' = "done"
                   /\ exitCause' = IF r = "ok0" THEN "closed" ELSE "error"
                   /\ txAlive' = FALSE
                   /\ line' = <<>>
                   /\ inbuf' = <<>>

\* a match that polls again on Ok(0) as it does on WouldBlock
AfterRead_EofPolls(r, taken, rest) ==
  CASE r \in {"ok0", "wouldblock"} -> /\ pc' = "sleep"
                                     /\ line' = taken
                                     /\ inbuf' = rest
                                     /\ UNCHANGED <<exitCause, txAlive>>
    [] r = "ok" -> /\ pc' = "process"
                   /\ line' = taken
                   /\ inbuf' = rest
                   /\ UNCHANGED <<exitCause, txAlive>>
    [] r = "err" -> /\ pc' = "done"
                    /\ exitCause' = "error"
                    /\ txAlive' = FALSE
                    /\ line' = <<>>
                    /\ inbuf' = <<>>

\* the arm the match on reader.read_line(&mut line) takes; taken and rest
\* are what the call appended to the String and left in the reader
AfterRead(r, taken, rest) ==
  CASE r = "ok0" -> Exit("closed")
    [] r = "ok" -> /\ pc' = "process"
                   /\ line' = taken
                   /\ inbuf' = rest
                   /\ UNCHANGED <<exitCause, txAlive>>
    [] r = "wouldblock" -> /\ pc' = "sleep"
                           /\ line' = taken
                           /\ inbuf' = rest
                           /\ UNCHANGED <<exitCause, txAlive>>
    [] r = "err" -> Exit("error")

ReadLine ==
  /\ pc = "read"
  /\ AfterRead(ReadResult(inbuf, conn), line \o ReadTaken(inbuf), ReadRest(inbuf))
  /\ readAfterCancel' = (readAfterCancel \/ shutdown_flag)
  /\ readAfterDrop' = (readAfterDrop \/ ~rxAlive)
  /\ UNCHANGED <<toSend, sending, midLine, linesWritten, wroteEvents, wroteBlank, wroteMalformed,
                 malformedAfter, wroteUnterminated, wroteOpenEvent, conn,
                 diag, shutdown_flag, rxAlive, queue, received, sent, sentAfterCancel,
                 sleptAfterCancel, asideVars>>

\* a channel that hands out the newest value first
ChannelSend_Front(q, e) == <<e>> \o q

\* mpsc::Sender::send queues the value at the tail of the channel ...
ChannelSend(q, e) == Append(q, e)

\* a send whose result is not looked at
SendFails_Unchecked(alive) == FALSE

\* ... and tx.send(event).is_err() exactly when the Receiver is gone
SendFails(alive) == ~alive

\* the Ok(_) arm: trim, skip blank, decode, send
ProcessLine ==
  /\ pc = "process"
  /\ LET trimmed == Trim(line) IN
     IF trimmed = <<>>
     THEN /\ pc' = "check"
          /\ UNCHANGED <<line, inbuf, exitCause, txAlive, diag, queue, sent, sentAfterCancel>>
     ELSE IF DecodeOk(trimmed)
     THEN IF ~SendFails(rxAlive)
          THEN /\ queue' = ChannelSend(queue, Decode(trimmed))
               /\ sent' = Append(sent, Decode(trimmed))
               /\ sentAfterCancel' = (sentAfterCancel \/ shutdown_flag)
               /\ pc' = "check"
               /\ UNCHANGED <<line, inbuf, exitCause, txAlive, diag>>
          ELSE /\ Exit("receiver dropped")
               /\ UNCHANGED <<diag, queue, sent, sentAfterCancel>>
     ELSE /\ diag' = TRUE
          /\ pc' = "check"
          /\ UNCHANGED <<line, inbuf, exitCause, txAlive, queue, sent, sentAfterCancel>>
  /\ UNCHANGED <<toSend, sending, midLine, linesWritten, wroteEvents, wroteBlank, wroteMalformed,
                 malformedAfter, wroteUnterminated, wroteOpenEvent, conn,
                 shutdown_flag, rxAlive, received,
                 readAfterCancel, sleptAfterCancel, readAfterDrop, asideVars>>

\* a retry that goes straight back to the read
AfterSleep_ReadAgain == "read"

\* where `continue` after the sleep resumes: the top of the loop
AfterSleep == "check"

\* the WouldBlock arm: thread::sleep(100 ms); continue
Sleep ==
  /\ pc = "sleep"
  /\ pc' = AfterSleep
  /\ sleptAfterCancel' = (sleptAfterCancel \/ shutdown_flag)
  /\ UNCHANGED <<serverVars, line, exitCause, diag, sharedVars,
                 sent, sentAfterCancel, readAfterCancel, readAfterDrop, asideVars>>

ListenerStep == CheckShutdown \/ ReadLine \/ ProcessLine \/ Sleep

(***************************************************************************)
(* The caller of subscribe.                                                *)
(***************************************************************************)
\* shutdown_flag.store(true)
Cancel ==
  /\ ~shutdown_flag
  /\ shutdown_flag' = TRUE
  /\ UNCHANGED <<serverVars, listenerVars, txAlive, rxAlive, queue, received, histVars, asideVars>>

\* rx.recv(): the next queued event, also after the Sender is gone
Recv ==
  /\ rxAlive
  /\ queue # <<>>
  /\ received' = Append(received, Head(queue))
  /\ queue' = Tail(queue)
  /\ UNCHANGED <<serverVars, listenerVars, shutdown_flag, txAlive, rxAlive, histVars, asideVars>>

\* drop(rx): the queued events go with it
DropReceiver ==
  /\ rxAlive
  /\ rxAlive' = FALSE
  /\ queue' = <<>>
  /\ UNCHANGED <<serverVars, listenerVars, shutdown_flag, txAlive, received, histVars, asideVars>>

Next ==
  \/ ServerBeginLine
  \/ ServerWriteByte
  \/ ServerClose
  \/ TransportError
  \/ CheckShutdown
  \/ ReadLine
  \/ ProcessLine
  \/ Sleep
  \/ Cancel
  \/ Recv
  \/ DropReceiver

Spec == Init /\ [][Next]_vars

\* the listener is an OS thread: its next step is always eventually taken
FairSpec == Spec /\ WF_vars(ListenerStep)

(***************************************************************************)
(* The call of subscribe, from its first statement to its return.          *)
(***************************************************************************)
\* the requests a caller can pass
Requests == {"a", "b"}

\* serde_json::to_string(&subscription_request): one JSON object, one line
EncodeRequest(r) == <<LB, r, RB>>

\* the server's reading of the handshake line
DecodeRequestOk(s) == Len(s) = 3 /\ s[1] = LB /\ s[3] = RB /\ s[2] \in Requests

\* an error that is dropped instead of returned
Question_Ignored(ok, next) == next

\* the `?` operator: go on with Ok, return the Err to the caller
Question(ok, next) == IF ok THEN next ELSE "failed"

\* a write that puts nothing on the stream
WriteAll_Nothing(out, bytes) == out

\* stream.write_all(bytes)
WriteAll(out, bytes) == out \o bytes

streamVars == <<toSend, sending, midLine, linesWritten, wroteEvents, wroteBlank, wroteMalformed,
                malformedAfter, wroteUnterminated, wroteOpenEvent, inbuf>>

\* subscribe has been called and has run no statement yet
CallStarted ==
  /\ step = "connect"
  /\ request \in Requests
  /\ wire = <<>>
  /\ flushed = FALSE
  /\ connects = 0
  /\ handshake = "none"
  /\ callErr = "none"

\* no connection, no channel, no thread
NotConnected ==
  /\ toSend = <<>>
  /\ sending = "none"
  /\ midLine = FALSE
  /\ linesWritten = 0
  /\ wroteEvents = <<>>
  /\ wroteBlank = FALSE
  /\ wroteMalformed = FALSE
  /\ malformedAfter = 0
  /\ wroteUnterminated = FALSE
  /\ wroteOpenEvent = FALSE
  /\ inbuf = <<>>
  /\ conn = "none"
  /\ pc = "unspawned"
  /\ line = <<>>
  /\ exitCause = "none"
  /\ diag = FALSE
  /\ shutdown_flag = FALSE
  /\ txAlive = FALSE
  /\ rxAlive = FALSE
  /\ queue = <<>>
  /\ received = <<>>
  /\ sent = <<>>
  /\ sentAfterCancel = FALSE
  /\ readAfterCancel = FALSE
  /\ sleptAfterCancel = FALSE
  /\ readAfterDrop = FALSE

\* a statement `expr?` on the connected stream: on Err the call returns it
\* and the stream is dropped with the call's locals
Fallible(at, next, kind, ok) ==
  /\ step = at
  /\ step' = Question(ok, next)
  /\ callErr' = IF ok THEN callErr ELSE kind
  /\ conn' = IF ok \/ conn # "connected" THEN conn ELSE "dropped"

\* let mut stream = TcpStream::connect(addr)?;
Connect ==
  /\ step = "connect"
  /\ \E ok \in BOOLEAN :
       /\ step' = Question(ok, "set_nonblocking")
       /\ callErr' = IF ok THEN callErr ELSE "io"
       /\ conn' = IF ok THEN "connected" ELSE "refused"
  /\ connects' = connects + 1
  /\ UNCHANGED <<streamVars, listenerVars, sharedVars, histVars, gatewayVars, codec, peers,
                 request, wire, flushed, handshake>>

\* stream.set_nonblocking(true)?;
SetNonblocking ==
  /\ \E ok \in BOOLEAN : Fallible("set_nonblocking", "try_clone", "io", ok)
  /\ UNCHANGED <<streamVars, listenerVars, sharedVars, histVars, gatewayVars, codec, peers,
                 request, wire, flushed, connects, handshake>>

\* let reader_stream = stream.try_clone()?; BufReader::new(reader_stream)
TryClone ==
  /\ \E ok \in BOOLEAN : Fallible("try_clone", "to_string", "io", ok)
  /\ UNCHANGED <<streamVars, listenerVars, sharedVars, histVars, gatewayVars, codec, peers,
                 request, wire, flushed, connects, handshake>>

\* let req_json = serde_json::to_string(&subscription_request)?;
Serialize ==
  /\ \E ok \in BOOLEAN : Fallible("to_string", "write_request", "serde", ok)
  /\ UNCHANGED <<streamVars, listenerVars, sharedVars, histVars, gatewayVars, codec, peers,
                 request, wire, flushed, connects, handshake>>

\* stream.write_all(req_json.as_bytes())?;
WriteRequest ==
  /\ \E ok \in BOOLEAN :
       /\ Fallible("write_request", "write_newline", "io", ok)
       /\ wire' = IF ok THEN WriteAll(wire, EncodeRequest(request)) ELSE wire
  /\ UNCHANGED <<streamVars, listenerVars, sharedVars, histVars, gatewayVars, codec, peers,
                 request, flushed, connects, handshake>>

\* stream.write_all(b"\n")?;
WriteNewline ==
  /\ \E ok \in BOOLEAN :
       /\ Fallible("write_newline", "flush", "io", ok)
       /\ wire' = IF ok THEN WriteAll(wire, <<NL>>) ELSE wire
  /\ UNCHANGED <<streamVars, listenerVars, sharedVars, histVars, gatewayVars, codec, peers,
                 request, flushed, connects, handshake>>

\* stream.flush()?;
Flush ==
  /\ \E ok \in BOOLEAN :
       /\ Fallible("flush", "channel", "io", ok)
       /\ flushed' = ok
  /\ UNCHANGED <<streamVars, listenerVars, sharedVars, histVars, gatewayVars, codec, peers,
                 request, wire, connects, handshake>>

\* let (tx, rx) = mpsc::channel::<Event>();
CreateChannel ==
  /\ step = "channel"
  /\ step' = "spawn"
  /\ txAlive' = TRUE
  /\ UNCHANGED <<serverVars, listenerVars, shutdown_flag, rxAlive, queue, received, histVars,
                 gatewayVars, codec, peers, request, wire, flushed, connects, handshake, callErr>>

\* thread::spawn(move || { ... }); Ok(rx): the thread starts at the top of
\* its loop, the caller gets the Receiver, the call's locals are dropped
Spawn ==
  /\ step = "spawn"
  /\ step' = "returned"
  /\ pc' = "check"
  /\ rxAlive' = TRUE
  /\ request' = "none"
  /\ UNCHANGED <<serverVars, line, exitCause, diag, shutdown_flag, txAlive, queue, received,
                 histVars, gatewayVars, codec, peers, wire, flushed, connects, handshake, callErr>>

\* the server reads the first line of the connection and, when it is a
\* request, begins streaming
ServerReceiveHandshake ==
  /\ conn = "connected"
  /\ handshake = "none"
  /\ HasNL(wire)
  /\ LET ok == DecodeRequestOk(Trim(ReadTaken(wire))) IN
       /\ handshake' = IF ok THEN "ok" ELSE "bad"
       /\ conn' = IF ok THEN "open" ELSE "closed"
  /\ wire' = ReadRest(wire)
  /\ UNCHANGED <<streamVars, listenerVars, sharedVars, histVars, gatewayVars, codec, peers,
                 step, request, flushed, connects, callErr>>

SubscribeInit == NotConnected /\ GatewayIdle /\ CallStarted /\ AsideIdle

SubscribeNext ==
  \/ Connect
  \/ SetNonblocking
  \/ TryClone
  \/ Serialize
  \/ WriteRequest
  \/ WriteNewline
  \/ Flush
  \/ CreateChannel
  \/ Spawn
  \/ ServerReceiveHandshake
  \/ ServerBeginLine
  \/ ServerWriteByte
  \/ ServerClose
  \/ TransportError
  \/ CheckShutdown
  \/ ReadLine
  \/ ProcessLine
  \/ Sleep
  \/ Cancel
  \/ Recv
  \/ DropReceiver

SubscribeSpec == SubscribeInit /\ [][SubscribeNext]_vars

(***************************************************************************)
(* The line codec: serde_json::to_string on the writing side, read_line,   *)
(* trim and serde_json::from_str on the reading side.  A value is a tagged  *)
(* record (an Event variant or the SubscriptionRequest) that carries text. *)
(***************************************************************************)
BS == "\\"
QT == "\""
LN == "n"

Kinds == {"event_a", "event_b", "request"}
TextChars == {LN, NL, BS, QT}

RECURSIVE Texts(_)
Texts(n) == IF n = 0 THEN {<<>>}
            ELSE Texts(n - 1) \cup {Append(t, c) : t \in Texts(n - 1), c \in TextChars}

Values == [kind : Kinds, text : Texts(MaxText)]

\* a serializer that writes every character as it is
EscapeChar_Raw(c) == <<c>>

\* JSON string escaping: quote, backslash and the line terminator never
\* appear bare inside a string
EscapeChar(c) ==
  CASE c = NL -> <<BS, LN>>
    [] c = BS -> <<BS, BS>>
    [] c = QT -> <<BS, QT>>
    [] OTHER -> <<c>>

RECURSIVE Escape(_)
Escape(t) == IF t = <<>> THEN <<>> ELSE EscapeChar(Head(t)) \o Escape(Tail(t))

\* to_string: the compact one-line form {kind"text"}
ToJsonLine(v) == <<LB, v.kind, QT>> \o Escape(v.text) \o <<QT, RB>>

\* the character an escape sequence \c stands for
UnescapeChar(c) == IF c = LN THEN NL ELSE c

\* the text of a string body, or failure on a bare quote, a bare line
\* terminator or an unknown escape
RECURSIVE Unescape(_)
Unescape(b) ==
  IF b = <<>> THEN [ok |-> TRUE, text |-> <<>>]
  ELSE IF Head(b) = BS
  THEN IF Len(b) < 2 \/ b[2] \notin {LN, BS, QT}
       THEN [ok |-> FALSE, text |-> <<>>]
       ELSE LET rest == Unescape(SubSeq(b, 3, Len(b)))
            IN [ok |-> rest.ok, text |-> IF rest.ok THEN <<UnescapeChar(b[2])>> \o rest.text ELSE <<>>]
  ELSE IF Head(b) \in {QT, NL}
  THEN [ok |-> FALSE, text |-> <<>>]
  ELSE LET rest == Unescape(Tail(b))
       IN [ok |-> rest.ok, text |-> IF rest.ok THEN <<Head(b)>> \o rest.text ELSE <<>>]

\* from_str: the whole input must be one well-formed value of a known kind
FromJsonLine(s) ==
  IF Len(s) >= 5 /\ s[1] = LB /\ s[2] \in Kinds /\ s[3] = QT
     /\ s[Len(s) - 1] = QT /\ s[Len(s)] = RB
  THEN LET body == Unescape(SubSeq(s, 4, Len(s) - 2))
       IN IF body.ok THEN [ok |-> TRUE, value |-> [kind |-> s[2], text |-> body.text]]
          ELSE NoOut
  ELSE NoOut

\* the writer serializes the value
CodecEncode ==
  /\ codec.at = "value"
  /\ codec' = [codec EXCEPT !.at = "encoded", !.line = ToJsonLine(codec.value)]
  /\ UNCHANGED <<serverVars, listenerVars, sharedVars, histVars, gatewayVars, callVars, peers>>

\* the line goes on the wire with its terminator and read_line takes the
\* first line of what arrived
CodecRead ==
  /\ codec.at = "encoded"
  /\ codec' = [codec EXCEPT !.at = "read", !.read = ReadTaken(codec.line \o <<NL>>)]
  /\ UNCHANGED <<serverVars, listenerVars, sharedVars, histVars, gatewayVars, callVars, peers>>

\* the reader trims the line and parses it
CodecDecode ==
  /\ codec.at = "read"
  /\ codec' = [codec EXCEPT !.at = "decoded", !.out = FromJsonLine(Trim(codec.read))]
  /\ UNCHANGED <<serverVars, listenerVars, sharedVars, histVars, gatewayVars, callVars, peers>>

CodecInit ==
  /\ ListenerInit
  /\ GatewayIdle
  /\ CallReturned
  /\ peers = NoPeers
  /\ \E v \in Values : codec = [NoCodec EXCEPT !.at = "value", !.value = v]

CodecNext == CodecEncode \/ CodecRead \/ CodecDecode

CodecSpec == CodecInit /\ [][CodecNext]_vars

(***************************************************************************)
(* Two calls of subscribe side by side: each has its own connection, its   *)
(* own channel, its own flag and its own thread running the loop above.    *)
(* peers[i] holds what call i created; the servers hand whole lines to the *)
(* sockets.                                                                *)
(***************************************************************************)
PeerIds == {1, 2}

\* what one call of subscribe has created when it returns Ok(rx)
PeerStart ==
  [conn |-> "open", wrote |-> 0, inbuf |-> <<>>,
   pc |-> "check", line |-> <<>>, cause |-> "none",
   flag |-> FALSE, tx |-> TRUE, rx |-> TRUE, queue |-> <<>>, sent |-> <<>>]

\* one flag for every listener of the process
PeerFlag_Shared(ps, i) == ps[1].flag

\* the shutdown_flag a thread loads is the Arc its own call was given
PeerFlag(ps, i) == ps[i].flag

\* break: the closure ends and drops tx, the String and the reader
PeerExit(l, cause) ==
  [l EXCEPT !.pc = "done", !.cause = cause, !.tx = FALSE, !.line = <<>>, !.inbuf = <<>>]

\* the top of the loop
PeerAtCheck(l, flag) ==
  IF ShutdownRequested(flag) THEN PeerExit(l, "shutdown")
  ELSE [l EXCEPT !.pc = "read", !.line = <<>>]

\* match reader.read_line(&mut line)
PeerAtRead(l) ==
  LET r == ReadResult(l.inbuf, l.conn)
      taken == l.line \o ReadTaken(l.inbuf)
      rest == ReadRest(l.inbuf)
  IN CASE r = "ok0" -> PeerExit(l, "closed")
       [] r = "ok" -> [l EXCEPT !.pc = "process", !.line = taken, !.inbuf = rest]
       [] r = "wouldblock" -> [l EXCEPT !.pc = "sleep", !.line = taken, !.inbuf = rest]
       [] r = "err" -> PeerExit(l, "error")

\* the Ok(_) arm
PeerAtProcess(l) ==
  LET trimmed == Trim(l.line) IN
  IF trimmed = <<>> THEN [l EXCEPT !.pc = "check"]
  ELSE IF DecodeOk(trimmed)
  THEN IF ~SendFails(l.rx)
       THEN [l EXCEPT !.queue = ChannelSend(l.queue, Decode(trimmed)),
                      !.sent = Append(l.sent, Decode(trimmed)),
                      !.pc = "check"]
       ELSE PeerExit(l, "receiver dropped")
  ELSE [l EXCEPT !.pc = "check"]

OthersIdle ==
  UNCHANGED <<serverVars, listenerVars, sharedVars, histVars, gatewayVars, callVars, codec>>

PeerServerWrite(i) ==
  /\ peers[i].pc # "done"
  /\ peers[i].conn = "open"
  /\ peers[i].wrote < MaxPeerLines
  /\ peers[i].inbuf = <<>>
  /\ \E l \in {Encode(EventOf(peers[i].wrote + 1))} \cup BlankLines \cup MalformedLines :
       peers' = [peers EXCEPT ![i].inbuf = l \o <<NL>>, ![i].wrote = peers[i].wrote + 1]
  /\ OthersIdle

PeerServerClose(i) ==
  /\ peers[i].pc # "done"
  /\ peers[i].conn = "open"
  /\ peers' = [peers EXCEPT ![i].conn = "closed"]
  /\ OthersIdle

PeerTransportError(i) ==
  /\ peers[i].pc # "done"
  /\ peers[i].conn = "open"
  /\ peers' = [peers EXCEPT ![i].conn = "reset"]
  /\ OthersIdle

PeerCheckShutdown(i) ==
  /\ peers[i].pc = "check"
  /\ peers' = [peers EXCEPT ![i] = PeerAtCheck(peers[i], PeerFlag(peers, i))]
  /\ OthersIdle

PeerReadLine(i) ==
  /\ peers[i].pc = "read"
  /\ peers' = [peers EXCEPT ![i] = PeerAtRead(peers[i])]
  /\ OthersIdle

PeerProcessLine(i) ==
  /\ peers[i].pc = "process"
  /\ peers' = [peers EXCEPT ![i] = PeerAtProcess(peers[i])]
  /\ OthersIdle

PeerSleep(i) ==
  /\ peers[i].pc = "sleep"
  /\ peers' = [peers EXCEPT ![i].pc = AfterSleep]
  /\ OthersIdle

PeerCancel(i) ==
  /\ ~peers[i].flag
  /\ peers' = [peers EXCEPT ![i].flag = TRUE]
  /\ OthersIdle

PeerDropReceiver(i) ==
  /\ peers[i].rx
  /\ peers' = [peers EXCEPT ![i].rx = FALSE, ![i].queue = <<>>]
  /\ OthersIdle

PairInit ==
  /\ ListenerInit
  /\ GatewayIdle
  /\ CallReturned
  /\ codec = NoCodec
  /\ peers = [i \in PeerIds |-> PeerStart]

PairNext ==
  \E i \in PeerIds :
    \/ PeerServerWrite(i)
    \/ PeerServerClose(i)
    \/ PeerTransportError(i)
    \/ PeerCheckShutdown(i)
    \/ PeerReadLine(i)
    \/ PeerProcessLine(i)
    \/ PeerSleep(i)
    \/ PeerCancel(i)
    \/ PeerDropReceiver(i)

PairSpec == PairInit /\ [][PairNext]_vars

(***************************************************************************)
(* The control plane: Server::start's subscription routes and handlers.    *)
(***************************************************************************)
\* the filters a client can submit, and a body that is no Subscription
Filters == {"f1", "f2"}
Payloads == Filters \cup {"invalid"}

\* a path segment is a Uuid (1..MaxSubs + 1, the last one never stored) or
\* text that is no Uuid (0)
Segments == 0..(MaxSubs + 1)
ParsesAsUuid(seg) == seg >= 1

Sub(id, f) == [id |-> id, filter |-> f]
StoredIds == {s.id : s \in registry}

\* the router: which handler serves a method on a path
Route(method, path) ==
  CASE path = "/subscription/{id}" ->
         IF method = "GET" THEN "get_subscription" ELSE "method_not_allowed"
    [] path = "/subscription" ->
         IF method = "POST" THEN "add_subscription"
         ELSE IF method = "DELETE" THEN "delete_subscription"
         ELSE "method_not_allowed"
    [] path = "/subscriptions" ->
         IF method = "GET" THEN "subscriptions" ELSE "method_not_allowed"
    [] OTHER -> "not_found"

\* the path parameters the matched route captures
RouteParams(path, seg) == IF path = "/subscription/{id}" THEN <<seg>> ELSE <<>>

\* the Path<Uuid> extractor: a route that captures no parameter is a
\* server-side mistake (500), a segment that is no Uuid a bad request
PathUuid(params) ==
  IF Len(params) # 1 THEN "500"
  ELSE IF ~ParsesAsUuid(params[1]) THEN "400"
  ELSE "ok"

\* the Json<Subscription> extractor
JsonSubscription(body) == IF body \in Filters THEN "ok" ELSE "422"

\* ServerError -> response classification
StatusOf(err) ==
  CASE err = "BadRequest" -> "400"
    [] err = "NotFound" -> "404"
    [] OTHER -> "500"

\* a handler that goes to the registry whatever the flag says
FeatureDisabled_Unchecked(flag) == FALSE

\* `if !config.enable_subscriptions { return Err(BadRequest) }`
FeatureDisabled(flag) == ~flag

IsClientError(status) == status \in {"400", "404", "405", "415", "422"}

\* the listener of the delivery connection takes no part in the control plane
ListenerIdle == UNCHANGED <<serverVars, listenerVars, sharedVars, histVars, callVars, codec, peers>>

Reply(op, status, body, target, hit) ==
  resp' = [op |-> op, status |-> status, body |-> body, target |-> target, hit |-> hit]

\* GET /subscriptions
ReqSubscriptions ==
  /\ Route("GET", "/subscriptions") = "subscriptions"
  /\ IF FeatureDisabled(enable_subscriptions)
     THEN Reply("subscriptions", StatusOf("BadRequest"), {}, 0, FALSE)
     ELSE Reply("subscriptions", "200", registry, 0, FALSE)
  /\ UNCHANGED <<enable_subscriptions, registry, nextUuid>>
  /\ ListenerIdle

\* GET /subscription/{seg}
ReqGetSubscription(seg) ==
  /\ Route("GET", "/subscription/{id}") = "get_subscription"
  /\ LET path == PathUuid(RouteParams("/subscription/{id}", seg))
         hit == seg \in StoredIds
     IN IF path # "ok"
        THEN Reply("get_subscription", path, {}, seg, hit)
        ELSE IF FeatureDisabled(enable_subscriptions)
        THEN Reply("get_subscription", StatusOf("BadRequest"), {}, seg, hit)
        ELSE IF hit
        THEN Reply("get_subscription", "200", {s \in registry : s.id = seg}, seg, hit)
        ELSE Reply("get_subscription", StatusOf("NotFound"), {}, seg, hit)
  /\ UNCHANGED <<enable_subscriptions, registry, nextUuid>>
  /\ ListenerIdle

\* POST /subscription with a body
ReqAddSubscription(body) ==
  /\ Route("POST", "/subscription") = "add_subscription"
  /\ LET json == JsonSubscription(body) IN
     IF json # "ok"
     THEN Reply("add_subscription", json, {}, 0, FALSE) /\ UNCHANGED <<registry, nextUuid>>
     ELSE IF FeatureDisabled(enable_subscriptions)
     THEN Reply("add_subscription", StatusOf("BadRequest"), {}, 0, FALSE)
          /\ UNCHANGED <<registry, nextUuid>>
     ELSE /\ nextUuid <= MaxSubs
          /\ registry' = registry \cup {Sub(nextUuid, body)}
          /\ nextUuid' = nextUuid + 1
          /\ Reply("add_subscription", "200", {Sub(nextUuid, body)}, nextUuid, FALSE)
  /\ UNCHANGED enable_subscriptions
  /\ ListenerIdle

\* DELETE /subscription: the only route to delete_subscription; id is the
\* subscription the client means, which the path cannot carry
ReqDeleteSubscription(id) ==
  /\ Route("DELETE", "/subscription") = "delete_subscription"
  /\ LET path == PathUuid(RouteParams("/subscription", id))
         hit == id \in StoredIds
     IN IF path # "ok"
        THEN Reply("delete_subscription", path, {}, id, hit) /\ UNCHANGED registry
        ELSE IF FeatureDisabled(enable_subscriptions)
        THEN Reply("delete_subscription", StatusOf("BadRequest"), {}, id, hit)
             /\ UNCHANGED registry
        ELSE IF hit
        THEN /\ registry' = {s \in registry : s.id # id}
             /\ Reply("delete_subscription", "200", {}, id, hit)
        ELSE Reply("delete_subscription", StatusOf("NotFound"), {}, id, hit)
             /\ UNCHANGED registry
  /\ UNCHANGED <<enable_subscriptions, nextUuid>>
  /\ ListenerIdle

\* DELETE /subscription/{seg}: the path is routed, the method is not
ReqDeleteByPath(seg) ==
  /\ Route("DELETE", "/subscription/{id}") = "method_not_allowed"
  /\ Reply("method_not_allowed", "405", {}, seg, seg \in StoredIds)
  /\ UNCHANGED <<enable_subscriptions, registry, nextUuid>>
  /\ ListenerIdle

GatewayInit ==
  /\ ListenerInit
  /\ CallReturned
  /\ AsideIdle
  /\ enable_subscriptions \in BOOLEAN
  \* the SubscriptionManager is handed to the server and may hold
  \* subscriptions already
  /\ \E n \in 0..1 : /\ registry = {Sub(i, "f1") : i \in 1..n}
                     /\ nextUuid = n + 1
  /\ resp = NoResp

GatewayNext ==
  \/ ReqSubscriptions
  \/ \E seg \in Segments : ReqGetSubscription(seg)
  \/ \E body \in Payloads : ReqAddSubscription(body)
  \/ \E id \in Segments : ReqDeleteSubscription(id)
  \/ \E seg \in Segments : ReqDeleteByPath(seg)

GatewaySpec == GatewayInit /\ [][GatewayNext]_vars

(***************************************************************************)
(* Properties.                                                             *)
(***************************************************************************)
IsPrefix(s, t) == Len(s) <= Len(t) /\ SubSeq(t, 1, Len(s)) = s

RECURSIVE IsSubSeq(_, _)
IsSubSeq(s, t) ==
  IF s = <<>> THEN TRUE
  ELSE IF t = <<>> THEN FALSE
  ELSE IF Head(s) = Head(t) THEN IsSubSeq(Tail(s), Tail(t))
  ELSE IsSubSeq(s, Tail(t))

\* the server wrote whole lines and closed, and the listener read the
\* stream to its end, with the consumer alive and no cancellation
DrainedToEof ==
  /\ pc = "done"
  /\ exitCause = "closed"
  /\ ~wroteUnterminated
  /\ rxAlive
  /\ ~shutdown_flag

\* C1: however the stream is fragmented and interleaved with would-block
\* reads, every well-formed event line the server wrote is pushed to the
\* channel exactly once: once the listener has read the stream to its end,
\* the events it sent are exactly the events the server wrote.
C1_ExactlyOnce == DrainedToEof => sent = wroteEvents

\* C2: the events the consumer receives (and those still queued behind
\* them) are in the relative order in which the server wrote them.
C2_OrderPreserved == IsSubSeq(received \o queue, wroteEvents)

\* two events went through would-block polls and reached the consumer
C2_Witness ==
  /\ received = <<EventOf(1), EventOf(2)>>
  /\ pc = "sleep"

\* C5 as stated: from the moment the cancellation signal is asserted no
\* further event is pushed, and what was enqueued stays receivable.
C5_NoPushOnceAsserted ==
  [][shutdown_flag =>
       /\ sent' = sent
       /\ (rxAlive' => received' \o queue' = received \o queue)]_vars

\* C5 amended: a listener that finds the signal set at the top of its loop
\* terminates; after the assertion at most one further event is pushed (the
\* one of the iteration in flight), none once the loop is at its top or
\* left; and the listener never discards an enqueued event.
C5_NoPushOnceObserved ==
  /\ [][sentAfterCancel => sent' = sent]_vars
  /\ [][(shutdown_flag /\ pc = "check" /\ pc' # pc) => (pc' = "done" /\ sent' = sent)]_vars
  /\ [][pc = "done" => (pc' = "done" /\ sent' = sent)]_vars
  /\ [][rxAlive' => IsPrefix(received \o queue, received' \o queue')]_vars

\* cancelled with an event still queued, one more pushed after the assertion
C5_Witness ==
  /\ pc = "done"
  /\ exitCause = "shutdown"
  /\ sentAfterCancel
  /\ Len(queue) = 2

\* C6: after the signal is asserted the loop completes at most one read
\* and takes at most one poll sleep, starts no read from a loop top at which
\* the signal is set, and, the thread being scheduled, terminates.
C6_CancellationBound ==
  /\ [][(readAfterCancel /\ pc = "read") => pc' = "read"]_vars
  /\ [][(sleptAfterCancel /\ pc = "sleep") => pc' = "sleep"]_vars
  /\ [][(shutdown_flag /\ pc = "check") => pc' \in {"check", "done"}]_vars
  /\ (shutdown_flag ~> pc = "done")

\* cancelled during a read that then reported would-block: one read, one
\* sleep, then the exit
C6_Witness ==
  /\ pc = "done"
  /\ exitCause = "shutdown"
  /\ readAfterCancel
  /\ sleptAfterCancel

\* C7 as stated: once the consumer is dropped the listener stops reading
\* within one loop iteration, whatever the stream holds: after one read
\* made with the consumer gone it makes no other.
C7_StopsWithinOneIteration == [][(readAfterDrop /\ pc = "read") => pc' = "read"]_vars

\* C7 amended: once the consumer is dropped the listener pushes nothing
\* more, and it terminates at its next send, that is when it next decodes a
\* well-formed event line; until then it keeps reading and polling.
C7_StopsAtNextSend ==
  /\ [][~rxAlive => (sent' = sent /\ queue' = queue)]_vars
  /\ [][(~rxAlive /\ pc = "process" /\ DecodeOk(Trim(line)) /\ pc' # pc)
          => (pc' = "done" /\ exitCause' = "receiver dropped" /\ ~txAlive')]_vars
  /\ [][exitCause' = "receiver dropped" => ~rxAlive]_vars

\* the consumer was dropped and the next decoded event ended the listener
C7_Witness ==
  /\ pc = "done"
  /\ exitCause = "receiver dropped"
  /\ readAfterDrop

\* C8: a malformed line only produces a diagnostic and the loop goes on,
\* so a stream with a malformed line between two valid events yields
\* exactly those two events on the consumer side.
C8_MalformedLineResilience ==
  (DrainedToEof /\ wroteMalformed /\ malformedAfter = 1 /\ Len(wroteEvents) = 2 /\ ~wroteBlank)
    => (sent = <<EventOf(1), EventOf(2)>> /\ diag)

\* C9: blank lines are skipped without an event, a diagnostic or an exit,
\* so a stream of blank lines and event lines yields exactly its events.
C9_BlankLineTolerance ==
  (DrainedToEof /\ wroteBlank /\ ~wroteMalformed /\ wroteEvents # <<>>)
    => (sent = wroteEvents /\ ~diag)

SubscriptionHandlers ==
  {"subscriptions", "get_subscription", "add_subscription", "delete_subscription"}

\* C3: with the feature flag off, every request served by one of the four
\* subscription handlers' routes gets a client-error (4xx) response.
C3_DisabledIsClientError ==
  (~enable_subscriptions /\ resp.op \in SubscriptionHandlers) => IsClientError(resp.status)

\* C4: with the feature flag on, a get of a stored id returns the stored
\* record, a delete of a stored id succeeds and removes it, and a get of an
\* id that is not stored is not-found.
C4_Lifecycle ==
  enable_subscriptions =>
    /\ (resp.op = "add_subscription" /\ resp.status = "200") => resp.body \subseteq registry
    /\ (resp.op = "get_subscription" /\ resp.hit) =>
         (resp.status = "200" /\ resp.body = {s \in registry : s.id = resp.target})
    /\ (resp.op = "get_subscription" /\ ~resp.hit /\ ParsesAsUuid(resp.target)) =>
         resp.status = "404"
    /\ (resp.op = "delete_subscription" /\ resp.hit) =>
         (resp.status = "200" /\ resp.target \notin StoredIds)

\* C11: when the connect fails, or the handshake write or flush, or any
\* other fallible statement before them, subscribe returns the error at
\* once: one connect attempt at most, no thread started, no Receiver
\* returned, and nothing happens after the failed call.
C11_FailFast ==
  /\ [](connects <= 1)
  /\ []((callErr # "none") <=> (step = "failed"))
  /\ [](step = "failed" => (pc = "unspawned" /\ ~rxAlive /\ ~txAlive /\ queue = <<>>))
  /\ [][step = "failed" => UNCHANGED <<step, callErr, pc, rxAlive, txAlive, connects, wire>>]_vars

\* the flush of the handshake failed and the call returned the io error
C11_Witness ==
  /\ step = "failed"
  /\ callErr = "io"
  /\ wire = EncodeRequest("a") \o <<NL>>
  /\ ~flushed

\* the handshake line of the call's request
Handshake(r) == EncodeRequest(r) \o <<NL>>

\* C12: the client writes exactly one line, the serialized request and one
\* newline, and has flushed it before the thread exists, hence before its
\* first read, and before the Receiver is returned; it writes nothing
\* afterwards, so the server reads exactly that line and nothing follows it.
C12_HandshakeFirst ==
  /\ [](step \in {"flush", "channel", "spawn"} =>
          \/ wire = Handshake(request) /\ handshake = "none"
          \/ wire = <<>> /\ handshake = "ok")
  /\ []((pc # "unspawned" \/ step = "returned") =>
          /\ flushed
          /\ \/ wire \in {Handshake(r) : r \in Requests} /\ handshake = "none"
             \/ wire = <<>> /\ handshake = "ok")
  /\ [][wire' # wire =>
          \/ step \in {"write_request", "write_newline"} /\ handshake' = handshake
          \/ handshake = "none" /\ handshake' = "ok" /\ wire' = <<>>]_vars
  /\ [](conn = "open" => handshake = "ok")

\* the read loop is handling a line of the stream the handshake started
C12_Witness ==
  /\ step = "returned"
  /\ handshake = "ok"
  /\ pc = "process"
  /\ line = Encode(EventOf(1)) \o <<NL>>

\* C13: for every Event variant and for the SubscriptionRequest, the
\* encoding of a value is one line with no embedded line terminator, it is
\* read back whole, and decoding it gives a value equal to the original.
C13_RoundTrip ==
  /\ (codec.at \in {"encoded", "read", "decoded"} => ~HasNL(codec.line))
  /\ (codec.at \in {"read", "decoded"} => codec.read = codec.line \o <<NL>>)
  /\ (codec.at = "decoded" => codec.out = [ok |-> TRUE, value |-> codec.value])

\* a value whose text holds a line terminator and a backslash went round
C13_Witness ==
  /\ codec.at = "decoded"
  /\ codec.value.text = <<NL, BS>>
  /\ codec.out.ok

ExitCauses == {"shutdown", "closed", "error", "receiver dropped"}

C15_SleepThenRecheck ==
  /\ [][(pc = "read" /\ ReadResult(inbuf, conn) = "wouldblock" /\ pc' # pc) =>
          (pc' = "sleep" /\ UNCHANGED <<sent, queue, received, diag, exitCause, txAlive>>)]_vars
  /\ [][(pc = "sleep" /\ pc' # pc) =>
          (pc' = "check" /\ UNCHANGED <<sent, queue, received, diag, exitCause, txAlive>>)]_vars
  /\ [][(pc # "read" /\ pc' = "read") => (pc = "check" /\ ~shutdown_flag)]_vars
  /\ [][(pc = "check" /\ shutdown_flag /\ pc' # pc) => pc' = "done"]_vars

\* after a would-block and its sleep the loop is back at its top, with the
\* flag set in the meantime
C15_Witness ==
  /\ pc = "check"
  /\ sleptAfterCancel
  /\ shutdown_flag
  /\ sent = <<EventOf(1)>>

\* C16: with the feature flag off no request reaches the registry: the
\* stored subscriptions and the ids handed out stay as they are, and no
\* response carries registry content.
C16_DisabledLeavesRegistry ==
  /\ [][~enable_subscriptions => UNCHANGED <<registry, nextUuid>>]_vars
  /\ []((~enable_subscriptions /\ resp.op # "none") => (resp.body = {} /\ resp.status # "200"))

\* flag off, a subscription stored, and a well-formed add was turned down
C16_Witness ==
  /\ ~enable_subscriptions
  /\ registry = {Sub(1, "f1")}
  /\ resp.op = "add_subscription"
  /\ resp.status = "400"

\* nothing of its own gives listener i a reason to stop
PeerUndisturbed(i) ==
  /\ ~peers[i].flag
  /\ peers[i].conn = "open"
  /\ peers[i].rx

\* C17: of two listeners on separate connections, channels and flags, one
\* ends only for a cause of its own, whatever happened to the other; a
\* step of one changes nothing of the other; and what each delivers is what
\* its own server wrote.
C17_Isolation ==
  /\ [](\A i \in PeerIds : PeerUndisturbed(i) => peers[i].pc # "done")
  /\ [](\A i \in PeerIds :
          /\ peers[i].cause = "shutdown" => peers[i].flag
          /\ peers[i].cause = "closed" => peers[i].conn = "closed"
          /\ peers[i].cause = "error" => peers[i].conn = "reset"
          /\ peers[i].cause = "receiver dropped" => ~peers[i].rx)
  /\ [][\A i, j \in PeerIds : (i # j /\ peers'[i] # peers[i]) => peers'[j] = peers[j]]_vars
  /\ [](\A i \in PeerIds :
          IsSubSeq(peers[i].sent, [k \in 1..peers[i].wrote |-> EventOf(k)]))

\* listener 1 was cancelled and is gone; listener 2 went on and delivered
\* its event afterwards
C17_Witness ==
  /\ peers[1].pc = "done"
  /\ peers[1].cause = "shutdown"
  /\ peers[1].sent = <<>>
  /\ PeerUndisturbed(2)
  /\ peers[2].sent = <<EventOf(1)>>
  /\ peers[2].pc = "sleep"

\* C18: when the server's last event line lacks its newline and the server
\* then closes, that line is still read, decoded and pushed, and only the
\* read after it ends the loop: the last event the server wrote is the last
\* event delivered.
C18_UnterminatedLastEvent ==
  (pc = "done" /\ exitCause = "closed" /\ wroteOpenEvent /\ rxAlive /\ ~shutdown_flag)
    => (sent # <<>> /\ sent[Len(sent)] = wroteEvents[Len(wroteEvents)])

====
